---- MODULE Spec2Model ----
(***************************************************************************)
(* Verification model of adpkd-segmentation-pytorch:                       *)
(*   - adpkd_segmentation/datasets/datasets.py                             *)
(*       InferenceDataset.__init__ (slice ordering), SegmentationDataset,  *)
(*       JsonDatasetGetter                                                 *)
(*   - notebooks/evaluate_patients_notebook.py                             *)
(*       exam_preds_to_stat, resized_stack, compute_inference_stats        *)
(* Each subsystem has its own specification (SpecInf, SpecStats, SpecSeg,  *)
(* SpecJson) over the shared variable list; the variables of the other     *)
(* subsystems stay at their idle values. SpecAccess builds a dataset and    *)
(* lets several workers read it.                                           *)
(***************************************************************************)
EXTENDS Integers, Sequences, FiniteSets, TLC

VARIABLES
    \* ---- InferenceDataset.__init__ ----
    inf_pt2dcm,     \* patient2dcm: sequence (dict insertion order) of per-patient path lists
    inf_meta,       \* what pydicom.dcmread(path) yields per path: group key and z
    inf_dcm2attribs, \* self.dcm2attribs
    inf_pc,         \* position in __init__
    inf_df,         \* the DataFrame `dataset`: rows in index order
    inf_todo,       \* groups the ranking loop has still to visit
    inf_dcm_paths,  \* self.dcm_paths
    inf_err,        \* exception that left __init__, "" if none
    \* ---- compute_inference_stats ----
    st_tree,            \* save_dir on disk: model directories, their study directories, the slice artifacts
    st_output,          \* argument `output`
    st_patient_ID,      \* argument `patient_ID` (<<>> for None)
    st_pc,              \* position in compute_inference_stats
    st_mi,              \* index of the model directory the outer loop is at
    st_si,              \* index of the study directory the inner loop is at
    st_heap,            \* the attribute dicts loaded from JSON, by object identity
    st_Metric_data,     \* Metric_data: ordered dict study -> dict object
    st_all_pred_vol,    \* all_pred_vol: ordered dict study -> list of volumes
    st_all_ground_vol,  \* all_ground_vol
    st_all_summaries,   \* all_summaries: ordered dict study -> list of dict objects
    st_ck,              \* index of the key the combination loop is at
    st_Combined,        \* Combined_metric_data: ordered dict study -> dict object
    st_csv,             \* the tables written so far: file name and rows
    st_err,             \* exception that left compute_inference_stats, "" if none
    \* ---- SegmentationDataset ----
    seg_pt2dcm,         \* patient2dcm: sequence (dict insertion order) of [patient, files]
    seg_patient_IDS,    \* argument patient_IDS: [none, ids]
    seg_bad,            \* the file no decoder can read, if any: [kind, path]
    seg_pc,             \* position in __init__; "ready" once the object exists
    seg_dcm_paths,      \* self.dcm_paths
    seg_label_paths,    \* self.label_paths
    seg_dcm2attribs,    \* self.dcm2attribs
    seg_tensor_dict,    \* self.tensor_dict: per index the attribute values stored
    seg_idx,            \* index prepare_tensor_dict's loop is at
    seg_last,           \* the last __getitem__ call on the built dataset: [index, outcome]
    seg_err,            \* exception that left __init__, "" if none
    \* ---- JsonDatasetGetter ----
    js_file,            \* the split file: its top-level members in text order, [key, ids]
    js_splitter_key,    \* argument splitter_key
    js_pc,              \* position in __init__ / __call__
    js_dataset_split,   \* dataset_split = json.load(f)
    js_patient_IDS,     \* self.patient_IDS
    js_patient2dcm,     \* self.patient2dcm after PatientFiltering
    js_dataset,         \* what __call__ returned: [made, patient_IDS, patient2dcm]
    js_err,             \* exception that left __init__, "" if none
    \* ---- workers reading a built dataset ----
    acc_w               \* per worker: the access it is in, its locals, what it returned

varsInf == <<inf_pt2dcm, inf_meta, inf_dcm2attribs, inf_pc, inf_df, inf_todo, inf_dcm_paths, inf_err>>

varsStats == <<st_tree, st_output, st_patient_ID, st_pc, st_mi, st_si, st_heap,
               st_Metric_data, st_all_pred_vol, st_all_ground_vol, st_all_summaries,
               st_ck, st_Combined, st_csv, st_err>>

varsSeg == <<seg_pt2dcm, seg_patient_IDS, seg_bad, seg_pc, seg_dcm_paths, seg_label_paths,
             seg_dcm2attribs, seg_tensor_dict, seg_idx, seg_last, seg_err>>

varsJson == <<js_file, js_splitter_key, js_pc, js_dataset_split, js_patient_IDS,
              js_patient2dcm, js_dataset, js_err>>

varsAcc == <<acc_w>>

vars == <<varsInf, varsStats, varsSeg, varsJson, varsAcc>>

notInf == <<varsStats, varsSeg, varsJson, varsAcc>>

notStats == <<varsInf, varsSeg, varsJson, varsAcc>>

notSeg == <<varsInf, varsStats, varsJson, varsAcc>>

notJson == <<varsInf, varsStats, varsSeg, varsAcc>>

notAcc == <<varsInf, varsStats, varsSeg, varsJson>>

----------------------------------------------------------------------------
\* Generic helpers

Range(s) == {s[i] : i \in DOMAIN s}

RECURSIVE Flatten(_)
Flatten(ss) == IF ss = <<>> THEN <<>> ELSE Head(ss) \o Flatten(Tail(ss))

\* lexicographic order on sequences of integers (tuples, strings as char codes)
RECURSIVE LexLess(_, _)
LexLess(a, b) ==
    IF b = <<>> THEN FALSE
    ELSE IF a = <<>> THEN TRUE
    ELSE IF Head(a) < Head(b) THEN TRUE
    ELSE IF Head(a) > Head(b) THEN FALSE
    ELSE LexLess(Tail(a), Tail(b))

\* the elements of a finite set of integer sequences in ascending order
RECURSIVE SortedSeqOf(_)
SortedSeqOf(S) ==
    IF S = {} THEN <<>>
    ELSE LET m == CHOOSE x \in S : \A y \in S \ {x} : LexLess(x, y)
         IN  <<m>> \o SortedSeqOf(S \ {m})

EmptyDict == [x \in {} |-> 0]

DictSet(d, k, v) == [x \in (DOMAIN d) \cup {k} |-> IF x = k THEN v ELSE d[x]]

----------------------------------------------------------------------------
\* Bounds of the InferenceDataset model

MaxFiles == 3

\* z-positions a file may carry (third component of ImagePositionPatient)
ZVals == {1, 2, 3}

\* ImagePositionPatient absent from the file
NoZ == -1

\* dataset["slice_pos"] = "" : the column before a rank is written
NoPos == -1

\* group keys (folder, SeriesDescription, PatientID, Rows, Columns,
\* AccessionNumber, SeriesNumber), strings coded as integers
GroupKeys == { <<1, 1, 1, 256, 256, 1, 1>>, <<1, 1, 1, 256, 256, 1, 2>> }

Paths == 1..MaxFiles

\* all orderings of a set of paths
Perms(S) == { s \in [1..Cardinality(S) -> S] : \A i, j \in DOMAIN s : i # j => s[i] # s[j] }

\* a path list cut into the per-patient lists of one or two patients
SplitAt(s, k) == IF k = Len(s) THEN << s >> ELSE << SubSeq(s, 1, k), SubSeq(s, k + 1, Len(s)) >>

----------------------------------------------------------------------------
\* InferenceDataset.__init__

\* self.dcm_paths before ordering: the per-patient lists concatenated
ConcatPaths(pt2dcm) == Flatten(pt2dcm)

\* literal_eval(str(dcmread(path).ImagePositionPatient))[2] raises when the
\* attribute is absent
ZPosRaises(paths, meta) == \E i \in DOMAIN paths : meta[paths[i]].z = NoZ

\* pd.DataFrame.from_dict(data) with the slice_pos column set to ""
MakeFrame(paths, meta) ==
    [i \in DOMAIN paths |->
        [dcm_paths |-> paths[i], key |-> meta[paths[i]].key,
         z_pos |-> meta[paths[i]].z, slice_pos |-> NoPos]]

\* dataset.groupby(group_keys): the group names in sorted order
GroupNames(df) == SortedSeqOf({ df[i].key : i \in DOMAIN df })

\* group.index: the rows of one group, ascending
RECURSIVE GroupIndexFrom(_, _, _)
GroupIndexFrom(df, name, i) ==
    IF i > Len(df) THEN <<>>
    ELSE (IF df[i].key = name THEN <<i>> ELSE <<>>) \o GroupIndexFrom(df, name, i + 1)

GroupIndex(df, name) == GroupIndexFrom(df, name, 1)

\* sort_key: "z_pos", or "dcm_paths" when group[sort_key].isna().any()
SortKey(df, idx) ==
    IF \E k \in DOMAIN idx : df[idx[k]].z_pos = NoZ THEN "dcm_paths" ELSE "z_pos"

\* zs = list(group[sort_key])
SortColumn(df, idx, sort_key) ==
    [k \in DOMAIN idx |-> IF sort_key = "z_pos" THEN df[idx[k]].z_pos ELSE df[idx[k]].dcm_paths]

\* np.argsort(zs): 0-based position of element i in ascending order
ArgsortPos(zs, i) ==
    Cardinality({ j \in DOMAIN zs : zs[j] < zs[i] })
    + Cardinality({ j \in 1..(i - 1) : zs[j] = zs[i] })

\* sorted_idxs, as 1-based indices into zs
SortedIdxs(zs) == [pos \in DOMAIN zs |-> CHOOSE i \in DOMAIN zs : ArgsortPos(zs, i) = pos - 1]

\* slice_map = {zs[idx]: pos for idx, pos in zip(sorted_idxs, range(len(zs)))}
\* built left to right: a repeated key keeps the last position written
RECURSIVE SliceMapUpTo(_, _)
SliceMapUpTo(zs, k) ==
    IF k = 0 THEN EmptyDict
    ELSE DictSet(SliceMapUpTo(zs, k - 1), zs[SortedIdxs(zs)[k]], k - 1)

\* a slip that ranks by listing position, the argsort forgotten
SliceMap_ListingOrder(zs) == [z \in Range(zs) |-> (CHOOSE i \in DOMAIN zs : zs[i] = z) - 1]

SliceMap(zs) == SliceMapUpTo(zs, Len(zs))

\* one iteration of the ranking loop: dataset.at[i, "slice_pos"] for the group's rows
RankGroup(df, name) ==
    LET idx == GroupIndex(df, name)
        zs == SortColumn(df, idx, SortKey(df, idx))
        slice_map == SliceMap(zs)
    IN  [i \in DOMAIN df |->
            IF df[i].key = name
            THEN LET k == CHOOSE k \in DOMAIN idx : idx[k] = i
                 IN  [df[i] EXCEPT !.slice_pos = slice_map[zs[k]]]
            ELSE df[i]]

\* the second groupby loop: group.sort_values(by="slice_pos", inplace=True)
\* sorts each group object the iteration hands out; `dataset` keeps its rows
SortGroupsInPlace(df) == df

\* self.dcm_paths = list(dataset["dcm_paths"])
ExposedPaths(df) == [i \in DOMAIN df |-> df[i].dcm_paths]

\* the attribute record of one worker that is in no access
NoAccess ==
    [pc |-> "idle", index |-> 0, verbose |-> FALSE, im_path |-> 0,
     image |-> <<>>, mask |-> <<>>, result |-> <<>>]

MaxWorkers == 2

Workers == 1..MaxWorkers

IdleAcc == acc_w = [w \in Workers |-> NoAccess]

\* the dcm2attribs argument as make_dcmdicts leaves it: per file its patient and
\* voxel volume
InfRawAttribs(pt2dcm) ==
    [path \in Range(Flatten(pt2dcm)) |->
        [patient |-> CHOOSE i \in DOMAIN pt2dcm : path \in Range(pt2dcm[i]),
         VOXEL_VOLUME |-> 2]]

IdleInf ==
    /\ inf_pt2dcm = <<>>
    /\ inf_meta = <<>>
    /\ inf_dcm2attribs = <<>>
    /\ inf_pc = "idle"
    /\ inf_df = <<>>
    /\ inf_todo = <<>>
    /\ inf_dcm_paths = <<>>
    /\ inf_err = ""

IdleStats ==
    /\ st_tree = <<>>
    /\ st_output = FALSE
    /\ st_patient_ID = <<>>
    /\ st_pc = "idle"
    /\ st_mi = 0
    /\ st_si = 0
    /\ st_heap = <<>>
    /\ st_Metric_data = <<>>
    /\ st_all_pred_vol = <<>>
    /\ st_all_ground_vol = <<>>
    /\ st_all_summaries = <<>>
    /\ st_ck = 0
    /\ st_Combined = <<>>
    /\ st_csv = <<>>
    /\ st_err = ""

IdleSeg ==
    /\ seg_pt2dcm = <<>>
    /\ seg_patient_IDS = [none |-> TRUE, ids |-> <<>>]
    /\ seg_bad = [kind |-> "none", path |-> 0]
    /\ seg_pc = "idle"
    /\ seg_dcm_paths = <<>>
    /\ seg_label_paths = <<>>
    /\ seg_dcm2attribs = <<>>
    /\ seg_tensor_dict = <<>>
    /\ seg_idx = 0
    /\ seg_last = [index |-> 0, outcome |-> "none"]
    /\ seg_err = ""

IdleJson ==
    /\ js_file = <<>>
    /\ js_splitter_key = ""
    /\ js_pc = "idle"
    /\ js_dataset_split = <<>>
    /\ js_patient_IDS = <<>>
    /\ js_patient2dcm = <<>>
    /\ js_dataset = [made |-> FALSE, patient_IDS |-> <<>>, patient2dcm |-> <<>>]
    /\ js_err = ""

InitInf ==
    /\ IdleAcc
    /\ IdleStats
    /\ IdleSeg
    /\ IdleJson
    /\ \E n \in 1..MaxFiles :
         \E order \in Perms(1..n) :
           \E cut \in 1..n :
             /\ inf_pt2dcm = SplitAt(order, cut)
             /\ inf_meta \in [1..n -> [key : GroupKeys, z : ZVals \cup {NoZ}]]
    /\ inf_dcm2attribs = InfRawAttribs(inf_pt2dcm)
    /\ inf_pc = "new"
    /\ inf_df = <<>>
    /\ inf_todo = <<>>
    /\ inf_dcm_paths = <<>>
    /\ inf_err = ""

\* lines 307-324: the z_pos comprehension raises on a file without position
InfReadRaises ==
    /\ inf_pc = "new"
    /\ ZPosRaises(ConcatPaths(inf_pt2dcm), inf_meta)
    /\ inf_pc' = "raised"
    /\ inf_err' = "AttributeError"
    /\ inf_dcm_paths' = ConcatPaths(inf_pt2dcm)
    /\ UNCHANGED <<inf_pt2dcm, inf_dcm2attribs, inf_meta, inf_df, inf_todo>>
    /\ UNCHANGED notInf

\* lines 307-357: gather the columns, build the frame, group it
InfBuildFrame ==
    /\ inf_pc = "new"
    /\ ~ZPosRaises(ConcatPaths(inf_pt2dcm), inf_meta)
    /\ inf_dcm_paths' = ConcatPaths(inf_pt2dcm)
    /\ inf_df' = MakeFrame(ConcatPaths(inf_pt2dcm), inf_meta)
    /\ inf_todo' = GroupNames(inf_df')
    /\ inf_pc' = "rank"
    /\ UNCHANGED <<inf_pt2dcm, inf_dcm2attribs, inf_meta, inf_err>>
    /\ UNCHANGED notInf

\* lines 359-375: one group of the ranking loop
InfRankGroup ==
    /\ inf_pc = "rank"
    /\ inf_todo # <<>>
    /\ inf_df' = RankGroup(inf_df, Head(inf_todo))
    /\ inf_todo' = Tail(inf_todo)
    /\ UNCHANGED <<inf_pt2dcm, inf_dcm2attribs, inf_meta, inf_pc, inf_dcm_paths, inf_err>>
    /\ UNCHANGED notInf

\* lines 377-379
InfSortGroups ==
    /\ inf_pc = "rank"
    /\ inf_todo = <<>>
    /\ inf_df' = SortGroupsInPlace(inf_df)
    /\ inf_pc' = "sorted"
    /\ UNCHANGED <<inf_pt2dcm, inf_dcm2attribs, inf_meta, inf_todo, inf_dcm_paths, inf_err>>
    /\ UNCHANGED notInf

\* lines 381-382
InfExpose ==
    /\ inf_pc = "sorted"
    /\ inf_dcm_paths' = ExposedPaths(inf_df)
    /\ inf_pc' = "done"
    /\ UNCHANGED <<inf_pt2dcm, inf_dcm2attribs, inf_meta, inf_df, inf_todo, inf_err>>
    /\ UNCHANGED notInf

NextInf == InfReadRaises \/ InfBuildFrame \/ InfRankGroup \/ InfSortGroups \/ InfExpose

SpecInf == InitInf /\ [][NextInf]_vars

----------------------------------------------------------------------------
\* Properties of InferenceDataset.__init__

InfFinished == inf_pc \in {"done", "raised"}

\* the frame row that holds a path
InfRowOf(p) == CHOOSE i \in DOMAIN inf_df : inf_df[i].dcm_paths = p

InfKeyAt(i) == inf_meta[inf_dcm_paths[i]].key

InfRankAt(i) == inf_df[InfRowOf(inf_dcm_paths[i])].slice_pos

\* the paths of the input that carry a given group key
InfGroupPaths(key) == { p \in DOMAIN inf_meta : inf_meta[p].key = key }

InfGroupRanked(key) == inf_pc \in {"rank", "sorted", "done"} /\ key \notin Range(inf_todo)

InfDistinctZ(key) ==
    \A p, q \in InfGroupPaths(key) :
        /\ inf_meta[p].z # NoZ
        /\ (p # q => inf_meta[p].z # inf_meta[q].z)

\* C1: once InferenceDataset is constructed, dcm_paths is sorted by (group key,
\* rank): the files of one group key occupy consecutive indices and, inside a
\* group, slice_pos does not decrease with the index.
C1_PathsSortedByKeyRank ==
    inf_pc = "done" =>
        /\ \A i, j, k \in DOMAIN inf_dcm_paths :
              (i < k /\ k < j /\ InfKeyAt(i) = InfKeyAt(j)) => InfKeyAt(k) = InfKeyAt(i)
        /\ \A i, j \in DOMAIN inf_dcm_paths :
              (i < j /\ InfKeyAt(i) = InfKeyAt(j)) => InfRankAt(i) <= InfRankAt(j)

\* C2: a ranked group of n slices whose z-positions are all present and
\* pairwise distinct carries exactly the ranks 0..n-1, and the ranks strictly
\* increase with z, whatever order the slices are listed in.
C2_DistinctZRankedByZ ==
    \A key \in GroupKeys :
        (InfGroupRanked(key) /\ InfDistinctZ(key)) =>
            /\ { inf_df[InfRowOf(p)].slice_pos : p \in InfGroupPaths(key) }
                   = 0..(Cardinality(InfGroupPaths(key)) - 1)
            /\ \A p, q \in InfGroupPaths(key) :
                   inf_meta[p].z < inf_meta[q].z
                       => inf_df[InfRowOf(p)].slice_pos < inf_df[InfRowOf(q)].slice_pos

\* a constructed dataset with a group of three slices, distinct z, listed
\* out of z order
C2_Witness ==
    /\ inf_pc = "done"
    /\ \E key \in GroupKeys :
          /\ Cardinality(InfGroupPaths(key)) = 3
          /\ InfDistinctZ(key)
          /\ \E i, j \in DOMAIN inf_dcm_paths :
                /\ i < j
                /\ InfKeyAt(i) = key /\ InfKeyAt(j) = key
                /\ inf_meta[inf_dcm_paths[i]].z > inf_meta[inf_dcm_paths[j]].z

\* C3: when __init__ has run, a group with a slice lacking z is ranked wholly
\* by path order, and a group whose slices all carry z is ranked by z.
C3_MissingZFallsBackToPath ==
    InfFinished =>
        \A key \in { inf_meta[p].key : p \in DOMAIN inf_meta } :
            /\ inf_pc = "done"
            /\ IF \E p \in InfGroupPaths(key) : inf_meta[p].z = NoZ
               THEN \A p, q \in InfGroupPaths(key) :
                        p < q => inf_df[InfRowOf(p)].slice_pos < inf_df[InfRowOf(q)].slice_pos
               ELSE \A p, q \in InfGroupPaths(key) :
                        inf_meta[p].z < inf_meta[q].z
                            => inf_df[InfRowOf(p)].slice_pos < inf_df[InfRowOf(q)].slice_pos

\* C14: every ranked group of n slices, slices sharing a z-position included,
\* carries pairwise distinct ranks that form exactly the set 0..n-1.
C14_RanksDistinct ==
    \A key \in GroupKeys :
        InfGroupRanked(key) =>
            /\ \A p, q \in InfGroupPaths(key) :
                   p # q => inf_df[InfRowOf(p)].slice_pos # inf_df[InfRowOf(q)].slice_pos
            /\ { inf_df[InfRowOf(p)].slice_pos : p \in InfGroupPaths(key) }
                   = 0..(Cardinality(InfGroupPaths(key)) - 1)

----------------------------------------------------------------------------
\* Numbers: Python floats are modelled as exact fractions n/d with d > 0

Rat(n, d) == [n |-> n, d |-> d]

RatEq(a, b) == a.n * b.d = b.n * a.d

RatLeq(a, b) == a.n * b.d <= b.n * a.d

RatMul(a, b) == Rat(a.n * b.n, a.d * b.d)

RECURSIVE SumSeq(_)
SumSeq(s) == IF s = <<>> THEN 0 ELSE Head(s) + SumSeq(Tail(s))

\* an ordered dict (OrderedDict, defaultdict(list)): a sequence of [k, v] in insertion order
ODHas(od, k) == \E i \in DOMAIN od : od[i].k = k

ODGet(od, k) == od[CHOOSE i \in DOMAIN od : od[i].k = k].v

\* od[k] = v
ODSet(od, k, v) ==
    IF ODHas(od, k)
    THEN [i \in DOMAIN od |-> IF od[i].k = k THEN [k |-> k, v |-> v] ELSE od[i]]
    ELSE Append(od, [k |-> k, v |-> v])

\* od[k].append(x) on a defaultdict(list)
ODAppend(od, k, x) == ODSet(od, k, (IF ODHas(od, k) THEN ODGet(od, k) ELSE <<>>) \o <<x>>)

ODKeys(od) == [i \in DOMAIN od |-> od[i].k]

----------------------------------------------------------------------------
\* Bounds of the compute_inference_stats model

MaxModels == 2

MaxSlices == 2

\* slice arrays are 1 x H x W with H = W = 2, stored row by row
SliceShape == <<1, 2, 2>>

\* the 0/1 arrays inference_to_disk saves (binarized predictions, masks)
Images == { <<0, 0, 0, 0>>, <<0, 1, 0, 0>>, <<1, 1, 1, 1>> }

GroundImages == { <<0, 1, 0, 0>>, <<1, 1, 1, 1>> }

\* file-name characters
SuffixPred == <<95, 112, 114, 101, 100, 46, 110, 112, 121>>          \* "_pred.npy"

SuffixGround == <<95, 103, 114, 111, 117, 110, 100, 46, 110, 112, 121>>  \* "_ground.npy"

SuffixImg == <<95, 105, 109, 103, 46, 110, 112, 121>>                \* "_img.npy"

SuffixAttrib == <<95, 97, 116, 116, 114, 105, 98, 46, 106, 115, 111, 110>>  \* "_attrib.json"

\* slice stems (Path(dcm_path).stem): "a", "b", "c", "d"
StemList == << <<97>>, <<98>>, <<99>>, <<100>> >>

\* stems of which one is another followed by "_": "a", "a_b", "a_h", "b"
StemChoices == { <<97>>, <<97, 95, 98>>, <<97, 95, 104>>, <<98>> }

\* the studies on disk: patient and MR directory names
StudyDirs == << [patient |-> <<80, 49>>, MR |-> <<77, 49>>],      \* "P1" / "M1"
                [patient |-> <<80, 50>>, MR |-> <<77, 49>> ] >>   \* "P2" / "M1"

\* model directory names: "m1", "m2", "m3"
ModelNames == << <<109, 49>>, <<109, 50>>, <<109, 51>> >>

\* attribute values: dim = (Rows, Columns), transform_resize_dim, vox_vol
DimVals == { <<2, 2>>, <<4, 4>> }

VoxVals == { 1, 3 }

----------------------------------------------------------------------------
\* Collaborators whose code is outside the two source files

\* SigmoidBinarize(thresholds=[0.5]): 1 where sigmoid(x) > 0.5, that is x > 0
Binarize(x) == IF x.n > 0 THEN 1 ELSE 0

\* Dice smoothing term epsilon = 1 / EpsInv
EpsInv == 1000

\* Dice = (2 |P.G| + eps) / (|P| + |G| + eps), sums over every voxel jointly
DiceValue(inter, psum, gsum) == Rat(2 * inter * EpsInv + 1, (psum + gsum) * EpsInv + 1)

----------------------------------------------------------------------------
\* Volumes: [shape, data]; data has one entry per index of the leading axis,
\* each the remaining axes stored row by row

Flat(vol) == Flatten(vol.data)

ToRatVol(vol) ==
    [shape |-> vol.shape,
     data |-> [i \in DOMAIN vol.data |-> [j \in DOMAIN vol.data[i] |-> Rat(vol.data[i][j], 1)]]]

\* np.stack(list of 1 x H x W arrays): n x 1 x H x W
StackSlices(arrs) == [shape |-> <<Len(arrs)>> \o SliceShape, data |-> arrs]

\* files of one kind in a study directory: sorted(study_dir.glob("*" + suffix))
RECURSIVE SortedBy(_, _)
SortedBy(slices, suffix) ==
    IF slices = {} THEN <<>>
    ELSE LET m == CHOOSE x \in slices :
                    \A y \in slices \ {x} : LexLess(x.stem \o suffix, y.stem \o suffix)
         IN  <<m>> \o SortedBy(slices \ {m}, suffix)

GlobSorted(study_dir, suffix) == SortedBy(Range(study_dir.slices), suffix)

\* attribs = sorted(study_dir.glob("*_attrib.json")), loaded
AttribFiles(study_dir) ==
    SortedBy({ x \in Range(study_dir.slices) : x.attrib.has }, SuffixAttrib)

----------------------------------------------------------------------------
\* exam_preds_to_stat

\* Dice(pred_process, power=1, dim=(0, 1, 2, 3)) needs prediction and ground
\* truth of one layout; an inconsistent layout is fatal
DiceRaises(pred_vol, ground_vol) == pred_vol.shape # ground_vol.shape

\* dice(pred, target): the prediction is binarized, the target taken as stored
DiceOf(pred_vol, ground_vol) ==
    LET p == Flat(pred_vol)
        g == Flat(ground_vol)
    IN  DiceValue(SumSeq([i \in DOMAIN p |-> Binarize(p[i]) * g[i].n]),
                  SumSeq([i \in DOMAIN p |-> Binarize(p[i])]),
                  SumSeq([i \in DOMAIN g |-> g[i].n]))

\* torch.sum(pred_process(torch.from_numpy(vol))).item()
PixelCount(vol) == LET v == Flat(vol) IN SumSeq([i \in DOMAIN v |-> Binarize(v[i])])

\* a slip that corrects by the ratio of the sides, not of the areas
ScaleFactor_Linear(attrib_dict) == Rat(attrib_dict.dim[1], attrib_dict.transform_resize_dim[1])

\* scale_factor = dim[0] ** 2 / transform_resize_dim[0] ** 2
ScaleFactor(attrib_dict) ==
    Rat(attrib_dict.dim[1] * attrib_dict.dim[1],
        attrib_dict.transform_resize_dim[1] * attrib_dict.transform_resize_dim[1])

\* scale_factor * attrib_dict["vox_vol"] * pixel_count
Volume(attrib_dict, count) ==
    RatMul(RatMul(ScaleFactor(attrib_dict), Rat(attrib_dict.vox_vol, 1)), Rat(count, 1))

\* pred_std=None
NoneStd == [none |-> TRUE, sq |-> Rat(0, 1)]

\* attrib_dict.update({...}); return attrib_dict
ExamPredsToStat(pred_vol, ground_vol, attrib_dict, pred_std) ==
    [attrib_dict EXCEPT
        !.has_stats = TRUE,
        !.TKV_GT = Volume(attrib_dict, PixelCount(ground_vol)),
        !.TKV_Pred = Volume(attrib_dict, PixelCount(pred_vol)),
        !.patient_dice = DiceOf(pred_vol, ground_vol),
        !.study = attrib_dict.patient \o attrib_dict.MR,
        !.scale_factor = ScaleFactor(attrib_dict),
        !.Pred_stdev = pred_std]

\* json.load of an _attrib.json file: the keys inference_to_disk wrote; the
\* statistics keys are absent until exam_preds_to_stat adds them
LoadAttrib(a) ==
    [patient |-> a.patient, MR |-> a.MR, dim |-> a.dim,
     transform_resize_dim |-> a.transform_resize_dim, vox_vol |-> a.vox_vol,
     has_stats |-> FALSE, TKV_GT |-> Rat(0, 1), TKV_Pred |-> Rat(0, 1),
     patient_dice |-> Rat(0, 1), study |-> <<>>, scale_factor |-> Rat(0, 1),
     Pred_stdev |-> NoneStd]

----------------------------------------------------------------------------
\* resized_stack and the ensemble average

\* np.moveaxis(arr, 0, -1) on a shape
MoveAxisFirstToLast(shape) == Tail(shape) \o <<Head(shape)>>

\* np.moveaxis(arr, -1, 0) on a shape
MoveAxisLastToFirst(shape) == <<shape[Len(shape)]>> \o SubSeq(shape, 1, Len(shape) - 1)

\* np.squeeze: every axis of length 1 is removed
Squeeze(shape) == SelectSeq(shape, LAMBDA d : d # 1)

\* reshape(arr) inside resized_stack
ReshapedShape(vol) == Squeeze(MoveAxisFirstToLast(vol.shape))

\* cv2.resize(src, dsize): rows = dsize[1], columns = dsize[0], channels kept
ResizedShape(shape, dsize) == <<dsize[2], dsize[1]>> \o SubSeq(shape, 3, Len(shape))

\* the shapes np.stack(resized) is given, dsize taken from the first array
ResizedShapes(vols) ==
    LET dsize == SubSeq(ReshapedShape(vols[1]), 1, 2)
    IN  [m \in DOMAIN vols |-> ResizedShape(ReshapedShape(vols[m]), dsize)]

\* np.stack raises unless all arrays have one shape
StackRaises(vols) == \E m \in DOMAIN vols : ResizedShapes(vols)[m] # ResizedShapes(vols)[1]

\* resized_stack(value): the models' arrays, all of the first one's size (the
\* arrays of a study share H x W here, where cv2.resize copies its input)
ResizedStack(vols) ==
    [stacked |-> TRUE,
     shape |-> <<Len(vols)>> \o ResizedShapes(vols)[1],
     data |-> [m \in DOMAIN vols |-> vols[m].data]]

\* np.expand_dims(arr, axis=1) on a shape
ExpandDims1(shape) == <<Head(shape), 1>> \o Tail(shape)

\* shape of np.expand_dims(np.moveaxis(np.mean(stack, axis=0), -1, 0), axis=1)
CombinedShape(stack) == ExpandDims1(MoveAxisLastToFirst(Tail(stack.shape)))

\* np.mean(stack, axis=0) at one stored position
MeanAt(stack, s, j) ==
    Rat(SumSeq([m \in DOMAIN stack.data |-> stack.data[m][s][j]]), Len(stack.data))

\* the averaged values laid out as CombinedShape says: with two or more
\* slices the slice axis comes back to the front (slices x 1 x H x W); with one
\* slice squeeze has dropped the slice axis, and moveaxis(-1, 0) turns the
\* H x W mean into W x H, then W x 1 x H
CombinedData(stack, n) ==
    IF n >= 2
    THEN [s \in 1..n |-> [j \in DOMAIN stack.data[1][s] |-> MeanAt(stack, s, j)]]
    ELSE LET H == stack.shape[2]
             W == stack.shape[3]
         IN  [w \in 1..W |-> [h \in 1..H |-> MeanAt(stack, 1, (h - 1) * W + w)]]

CombinedPredVol(stack, n) == [shape |-> CombinedShape(stack), data |-> CombinedData(stack, n)]

\* np.std(stack): the population standard deviation of every element of the
\* stacked array (no axis given); kept as its square, (N sum x^2 - (sum x)^2) / N^2
PredStd(stack) ==
    LET x == Flatten([m \in DOMAIN stack.data |-> Flatten(stack.data[m])])
        N == Len(x)
    IN  [none |-> FALSE,
         sq |-> Rat(N * SumSeq([i \in DOMAIN x |-> x[i] * x[i]]) - SumSeq(x) * SumSeq(x), N * N)]

----------------------------------------------------------------------------
\* compute_inference_stats: inputs

MkAttrib(sd, has, dim, rdim, vox) ==
    [has |-> has, patient |-> sd.patient, MR |-> sd.MR, dim |-> dim,
     transform_resize_dim |-> rdim, vox_vol |-> vox]

\* a study directory as inference_to_disk leaves it: per slice stem an _img, a
\* _pred and a _ground array and, unless it is missing, an _attrib.json
MkStudy(sd, n, preds, grounds, hasAttrib, dim, rdim, vox) ==
    [patient |-> sd.patient, MR |-> sd.MR,
     slices |-> [k \in 1..n |->
        [stem |-> StemList[k], pred |-> preds[k], ground |-> grounds[k],
         attrib |-> MkAttrib(sd, hasAttrib[k], dim, rdim, vox)]]]

\* the prediction a given model makes in the directory-layout cases
FixedPred(mi) == IF mi = 1 THEN <<0, 1, 0, 0>> ELSE IF mi = 2 THEN <<1, 1, 1, 1>> ELSE <<0, 0, 0, 0>>

StudyStates == {"absent", "empty", "no_attrib", "first_attrib_missing", "ok"}

FixedStudy(mi, sd, state) ==
    MkStudy(sd, IF state = "empty" THEN 0 ELSE 2,
            [k \in 1..2 |-> FixedPred(mi)], [k \in 1..2 |-> <<1, 1, 1, 1>>],
            [k \in 1..2 |-> IF state = "no_attrib" THEN FALSE
                            ELSE IF state = "first_attrib_missing" THEN k # 1 ELSE TRUE],
            <<4, 4>>, <<2, 2>>, 3)

RECURSIVE PresentStudies(_, _, _)
PresentStudies(mi, states, k) ==
    IF k > Len(StudyDirs) THEN <<>>
    ELSE (IF states[k] = "absent" THEN <<>> ELSE << FixedStudy(mi, StudyDirs[k], states[k]) >>)
         \o PresentStudies(mi, states, k + 1)

\* directory layouts: which studies each model directory holds, and in what state
InitStatsTree ==
    \E nm \in 1..MaxModels :
      \E states \in [1..nm -> [1..Len(StudyDirs) -> StudyStates]] :
        /\ st_tree = [mi \in 1..nm |->
                        [name |-> ModelNames[mi], studies |-> PresentStudies(mi, states[mi], 1)]]
        /\ st_output = TRUE
        /\ st_patient_ID = <<>>

\* prediction values: two models over one study of n slices
InitStatsValues ==
    \E n \in 1..MaxSlices :
      \E preds \in [1..2 -> [1..n -> Images]] :
        \E grounds \in [1..n -> GroundImages] :
          /\ st_tree = [mi \in 1..2 |->
                          [name |-> ModelNames[mi],
                           studies |-> << MkStudy(StudyDirs[1], n, preds[mi], grounds,
                                                  [k \in 1..n |-> TRUE], <<4, 4>>, <<2, 2>>, 3) >>]]
          /\ st_output = TRUE
          /\ st_patient_ID = <<>>

\* attribute values and call arguments: one model over both studies
InitStatsArgs ==
    \E dim \in DimVals, rdim \in DimVals, vox \in VoxVals :
      /\ st_tree = << [name |-> ModelNames[1],
                       studies |-> [k \in 1..Len(StudyDirs) |->
                          MkStudy(StudyDirs[k], 2, [j \in 1..2 |-> FixedPred(k)],
                                  [j \in 1..2 |-> <<1, 1, 1, 1>>],
                                  [j \in 1..2 |-> TRUE], dim, rdim, vox)]] >>
      /\ st_output \in BOOLEAN
      /\ st_patient_ID \in {<<>>} \cup { StudyDirs[k].patient : k \in DOMAIN StudyDirs }

\* slice stems: one model over one study whose slices carry any distinct stems
InitStatsStems ==
    \E n \in 1..MaxSlices :
      \E stems \in [1..n -> StemChoices] :
        /\ \A i, j \in 1..n : i # j => stems[i] # stems[j]
        /\ st_tree = << [name |-> ModelNames[1],
                         studies |-> << [patient |-> StudyDirs[1].patient, MR |-> StudyDirs[1].MR,
                                         slices |-> [k \in 1..n |->
                                            [stem |-> stems[k], pred |-> FixedPred(k),
                                             ground |-> <<1, 1, 1, 1>>,
                                             attrib |-> MkAttrib(StudyDirs[1], TRUE, <<4, 4>>,
                                                                 <<2, 2>>, 3)]]] >>] >>
        /\ st_output = TRUE
        /\ st_patient_ID = <<>>

InitStats ==
    /\ IdleAcc
    /\ IdleInf
    /\ IdleSeg
    /\ IdleJson
    /\ InitStatsTree \/ InitStatsValues \/ InitStatsArgs \/ InitStatsStems
    /\ st_pc = "models"
    /\ st_mi = 1
    /\ st_si = 1
    /\ st_heap = <<>>
    /\ st_Metric_data = <<>>
    /\ st_all_pred_vol = <<>>
    /\ st_all_ground_vol = <<>>
    /\ st_all_summaries = <<>>
    /\ st_ck = 0
    /\ st_Combined = <<>>
    /\ st_csv = <<>>
    /\ st_err = ""

----------------------------------------------------------------------------
\* compute_inference_stats: the two loops

\* model_dir.glob(f"{patient_ID}/{MR_num}")
StudiesOf(model_dir, patient_ID) ==
    IF patient_ID = <<>> THEN model_dir.studies
    ELSE SelectSeq(model_dir.studies, LAMBDA d : d.patient = patient_ID)

CurStudies == StudiesOf(st_tree[st_mi], st_patient_ID)

CurStudy == CurStudies[st_si]

InStudyLoop == st_pc = "models" /\ st_si <= Len(CurStudies)

\* pred_vol = np.stack(preds_np), ground_vol = np.stack(grounds_np)
PredVolOf(study_dir) ==
    LET f == GlobSorted(study_dir, SuffixPred) IN StackSlices([k \in DOMAIN f |-> f[k].pred])

GroundVolOf(study_dir) ==
    LET f == GlobSorted(study_dir, SuffixGround) IN StackSlices([k \in DOMAIN f |-> f[k].ground])

\* DataFrame(d).transpose(): one row per key, holding the dict as it is now
TableOf(od, heap) == [i \in DOMAIN od |-> [k |-> od[i].k, v |-> heap[od[i].v]]]

\* line 390: np.stack of an empty list raises
StatStackRaises ==
    /\ InStudyLoop
    /\ GlobSorted(CurStudy, SuffixImg) = <<>>
    /\ st_pc' = "raised"
    /\ st_err' = "ValueError"
    /\ UNCHANGED <<st_tree, st_output, st_patient_ID, st_mi, st_si, st_heap, st_Metric_data,
                   st_all_pred_vol, st_all_ground_vol, st_all_summaries, st_ck, st_Combined, st_csv>>
    /\ UNCHANGED notStats

\* line 398: attribs_dicts[0] of an empty list raises
StatAttribRaises ==
    /\ InStudyLoop
    /\ GlobSorted(CurStudy, SuffixImg) # <<>>
    /\ AttribFiles(CurStudy) = <<>>
    /\ st_pc' = "raised"
    /\ st_err' = "IndexError"
    /\ UNCHANGED <<st_tree, st_output, st_patient_ID, st_mi, st_si, st_heap, st_Metric_data,
                   st_all_pred_vol, st_all_ground_vol, st_all_summaries, st_ck, st_Combined, st_csv>>
    /\ UNCHANGED notStats

\* lines 376-406: one study of one model
StatStudy ==
    /\ InStudyLoop
    /\ GlobSorted(CurStudy, SuffixImg) # <<>>
    /\ AttribFiles(CurStudy) # <<>>
    /\ LET pred_vol == PredVolOf(CurStudy)
           ground_vol == GroundVolOf(CurStudy)
           summary == ExamPredsToStat(ToRatVol(pred_vol), ToRatVol(ground_vol),
                                      LoadAttrib(AttribFiles(CurStudy)[1].attrib), NoneStd)
           id == Len(st_heap) + 1
       IN  /\ st_heap' = Append(st_heap, summary)
           /\ st_Metric_data' = ODSet(st_Metric_data, summary.study, id)
           /\ st_all_pred_vol' = ODAppend(st_all_pred_vol, summary.study, pred_vol)
           /\ st_all_ground_vol' = ODAppend(st_all_ground_vol, summary.study, ground_vol)
           /\ st_all_summaries' = ODAppend(st_all_summaries, summary.study, id)
    /\ st_si' = st_si + 1
    /\ UNCHANGED <<st_tree, st_output, st_patient_ID, st_pc, st_mi, st_ck, st_Combined, st_csv, st_err>>
    /\ UNCHANGED notStats

\* lines 408-411: the model's table, then the next model or the combination loop
StatModelDone ==
    /\ st_pc = "models"
    /\ st_si > Len(CurStudies)
    /\ st_csv' = IF st_output
                 THEN Append(st_csv, [kind |-> "model", name |-> st_tree[st_mi].name,
                                      rows |-> TableOf(st_Metric_data, st_heap)])
                 ELSE st_csv
    /\ IF st_mi < Len(st_tree)
       THEN st_mi' = st_mi + 1 /\ st_si' = 1 /\ UNCHANGED <<st_pc, st_ck>>
       ELSE st_pc' = "combine" /\ st_ck' = 1 /\ UNCHANGED <<st_mi, st_si>>
    /\ UNCHANGED <<st_tree, st_output, st_patient_ID, st_heap, st_Metric_data,
                   st_all_pred_vol, st_all_ground_vol, st_all_summaries, st_Combined, st_err>>
    /\ UNCHANGED notStats

InCombineLoop == st_pc = "combine" /\ st_ck <= Len(st_all_pred_vol)

CurKey == st_all_pred_vol[st_ck].k

CurStack == ResizedStack(st_all_pred_vol[st_ck].v)

CurSlices == Len(st_all_pred_vol[st_ck].v[1].data)

\* what stops one pass of the combination loop: np.stack inside resized_stack,
\* or the Dice of volumes of different layouts
CombineRaises ==
    \/ StackRaises(st_all_pred_vol[st_ck].v)
    \/ DiceRaises(CombinedPredVol(CurStack, CurSlices), ODGet(st_all_ground_vol, CurKey)[1])

\* lines 413-433: one study of the combination loop
StatCombine ==
    /\ InCombineLoop
    /\ ~CombineRaises
    /\ LET id == ODGet(st_all_summaries, CurKey)[1]
           summary == ExamPredsToStat(CombinedPredVol(CurStack, CurSlices),
                                      ToRatVol(ODGet(st_all_ground_vol, CurKey)[1]),
                                      st_heap[id], PredStd(CurStack))
       IN  /\ st_heap' = [st_heap EXCEPT ![id] = summary]
           /\ st_Combined' = ODSet(st_Combined, summary.study, id)
    /\ st_all_pred_vol' = ODSet(st_all_pred_vol, CurKey, CurStack)
    /\ st_ck' = st_ck + 1
    /\ UNCHANGED <<st_tree, st_output, st_patient_ID, st_pc, st_mi, st_si, st_Metric_data,
                   st_all_ground_vol, st_all_summaries, st_csv, st_err>>
    /\ UNCHANGED notStats

\* lines 416-431, the pass that raises
StatCombineRaises ==
    /\ InCombineLoop
    /\ CombineRaises
    /\ st_all_pred_vol' = IF StackRaises(st_all_pred_vol[st_ck].v) THEN st_all_pred_vol
                          ELSE ODSet(st_all_pred_vol, CurKey, CurStack)
    /\ st_pc' = "raised"
    /\ st_err' = IF StackRaises(st_all_pred_vol[st_ck].v) THEN "ValueError" ELSE "ShapeMismatchError"
    /\ UNCHANGED <<st_tree, st_output, st_patient_ID, st_mi, st_si, st_heap, st_Metric_data,
                   st_all_ground_vol, st_all_summaries, st_ck, st_Combined, st_csv>>
    /\ UNCHANGED notStats

\* lines 435-438
StatWriteCombined ==
    /\ st_pc = "combine"
    /\ st_ck > Len(st_all_pred_vol)
    /\ st_csv' = IF st_output
                 THEN Append(st_csv, [kind |-> "combined", name |-> <<>>,
                                      rows |-> TableOf(st_Combined, st_heap)])
                 ELSE st_csv
    /\ st_pc' = "done"
    /\ UNCHANGED <<st_tree, st_output, st_patient_ID, st_mi, st_si, st_heap, st_Metric_data,
                   st_all_pred_vol, st_all_ground_vol, st_all_summaries, st_ck, st_Combined, st_err>>
    /\ UNCHANGED notStats

NextStats ==
    \/ StatStackRaises
    \/ StatAttribRaises
    \/ StatStudy
    \/ StatModelDone
    \/ StatCombine
    \/ StatCombineRaises
    \/ StatWriteCombined

SpecStats == InitStats /\ [][NextStats]_vars

----------------------------------------------------------------------------
\* Properties of compute_inference_stats and exam_preds_to_stat

StatFinished == st_pc \in {"done", "raised"}

StudyKey(dir) == dir.patient \o dir.MR

\* the study directories the run visits under model mi
Visited(mi) == StudiesOf(st_tree[mi], st_patient_ID)

VisitedKeys(mi) == { StudyKey(Visited(mi)[k]) : k \in DOMAIN Visited(mi) }

AllVisitedKeys == UNION { VisitedKeys(mi) : mi \in DOMAIN st_tree }

DirOf(mi, key) == Visited(mi)[CHOOSE k \in DOMAIN Visited(mi) : StudyKey(Visited(mi)[k]) = key]

IsEmptyStudy(dir) == dir.slices = <<>>

\* the reference slice (index 0 of the stacked volume) has no attributes file
LacksReferenceAttrib(dir) ==
    /\ dir.slices # <<>>
    /\ ~GlobSorted(dir, SuffixPred)[1].attrib.has

Healthy(dir) == ~IsEmptyStudy(dir) /\ ~LacksReferenceAttrib(dir)

AnyStudy(P(_)) == \E mi \in DOMAIN st_tree : \E k \in DOMAIN Visited(mi) : P(Visited(mi)[k])

\* number of voxels of a directory's saved predictions that binarize to 1
RECURSIVE PositiveVoxels(_)
PositiveVoxels(slices) ==
    IF slices = <<>> THEN 0
    ELSE Cardinality({ j \in DOMAIN Head(slices).pred : Head(slices).pred[j] > 0 })
         + PositiveVoxels(Tail(slices))

RECURSIVE PositiveGround(_)
PositiveGround(slices) ==
    IF slices = <<>> THEN 0
    ELSE Cardinality({ j \in DOMAIN Head(slices).ground : Head(slices).ground[j] > 0 })
         + PositiveGround(Tail(slices))

\* voxels at which at least one of the accumulated model volumes is positive
EnsemblePositive(vols) ==
    Cardinality({ sj \in (DOMAIN vols[1].data) \X (DOMAIN vols[1].data[1]) :
                    \E m \in DOMAIN vols : vols[m].data[sj[1]][sj[2]] > 0 })

HasTable(kind, name) == \E i \in DOMAIN st_csv : st_csv[i].kind = kind /\ st_csv[i].name = name

TableRows(kind, name) ==
    st_csv[CHOOSE i \in DOMAIN st_csv : st_csv[i].kind = kind /\ st_csv[i].name = name].rows

RowKeys(rows) == { rows[i].k : i \in DOMAIN rows }

RowOf(rows, key) == rows[CHOOSE i \in DOMAIN rows : rows[i].k = key].v

\* C4: when the run completes and two models hold identical prediction volumes
\* for a study, the combined row's patient_dice equals the patient_dice of each
\* model's row for that study, and the combined Pred_stdev is 0.
C4_IdenticalEnsemble ==
    (st_pc = "done" /\ st_output) =>
        \A k \in DOMAIN st_all_pred_vol :
            LET key == st_all_pred_vol[k].k
                stack == st_all_pred_vol[k].v
            IN  (Len(stack.data) = 2 /\ stack.data[1] = stack.data[2]) =>
                    LET comb == RowOf(TableRows("combined", <<>>), key)
                    IN  /\ \A mi \in DOMAIN st_tree :
                              RatEq(comb.patient_dice,
                                    RowOf(TableRows("model", st_tree[mi].name), key).patient_dice)
                        /\ ~comb.Pred_stdev.none
                        /\ comb.Pred_stdev.sq.n = 0

\* the relation C5 states between a summary, its attributes and a voxel count
TKVFormula(summary, pred_count, ground_count) ==
    LET orig == summary.dim[1]
        target == summary.transform_resize_dim[1]
    IN  /\ summary.has_stats
        /\ RatEq(summary.scale_factor, Rat(orig * orig, target * target))
        /\ RatEq(summary.TKV_Pred, Rat(orig * orig * summary.vox_vol * pred_count, target * target))
        /\ RatEq(summary.TKV_GT, Rat(orig * orig * summary.vox_vol * ground_count, target * target))
        /\ (target <= orig => RatLeq(Rat(1, 1), summary.scale_factor))
        /\ (target = orig =>
              /\ RatEq(summary.scale_factor, Rat(1, 1))
              /\ RatEq(summary.TKV_Pred, Rat(pred_count * summary.vox_vol, 1))
              /\ RatEq(summary.TKV_GT, Rat(ground_count * summary.vox_vol, 1)))

\* C5: every summary exam_preds_to_stat produces (per model, and combined) has
\* scale_factor = rows^2 / target^2 and TKV = scale_factor * vox_vol * count of
\* binarized-positive voxels, so scale_factor >= 1 when target <= rows, and with
\* target = rows scale_factor = 1 and TKV = count * vox_vol.
C5_ScaleAndTKV ==
    [][ /\ (Len(st_heap') > Len(st_heap) =>
              TKVFormula(st_heap'[Len(st_heap')], PositiveVoxels(CurStudy.slices),
                         PositiveGround(CurStudy.slices)))
        /\ ((st_pc = "combine" /\ st_ck' = st_ck + 1) =>
              TKVFormula(st_heap'[ODGet(st_all_summaries, CurKey)[1]],
                         EnsemblePositive(st_all_pred_vol[st_ck].v),
                         PixelCount(ToRatVol(ODGet(st_all_ground_vol, CurKey)[1]))))
      ]_vars

\* a completed run holding a combined summary with target < rows and a
\* positive predicted volume
C5_Witness ==
    /\ st_pc = "done"
    /\ \E i \in DOMAIN st_heap :
          /\ st_heap[i].has_stats
          /\ ~st_heap[i].Pred_stdev.none
          /\ st_heap[i].transform_resize_dim[1] < st_heap[i].dim[1]
          /\ st_heap[i].TKV_Pred.n > 0

\* every healthy study of every model has its row in that model's table, and
\* its row in the combined table
OthersReported ==
    /\ \A mi \in DOMAIN st_tree :
          /\ HasTable("model", st_tree[mi].name)
          /\ \A k \in DOMAIN Visited(mi) :
                Healthy(Visited(mi)[k]) =>
                    StudyKey(Visited(mi)[k]) \in RowKeys(TableRows("model", st_tree[mi].name))
    /\ HasTable("combined", <<>>)
    /\ \A mi \in DOMAIN st_tree :
          \A k \in DOMAIN Visited(mi) :
             Healthy(Visited(mi)[k]) =>
                 StudyKey(Visited(mi)[k]) \in RowKeys(TableRows("combined", <<>>))

\* C6: a run over a tree with a study directory holding no slice artifacts
\* (every other study being complete) ends normally, with every other study of
\* every model summarised and the combined summaries written.
C6_EmptyStudySkipped ==
    (/\ StatFinished
     /\ st_output
     /\ AnyStudy(IsEmptyStudy)
     /\ ~AnyStudy(LacksReferenceAttrib))
        => (st_pc = "done" /\ OthersReported)

\* number of summaries stored for a study key
StoredCount(key) == IF ODHas(st_all_summaries, key) THEN Len(ODGet(st_all_summaries, key)) ELSE 0

HealthyCount(key) ==
    Cardinality({ mi \in DOMAIN st_tree : key \in VisitedKeys(mi) /\ Healthy(DirOf(mi, key)) })

\* C7: a run over a tree with a study whose reference slice has no attributes
\* file (no directory being empty) ends normally: no summary is stored for
\* that study of that model, the remaining studies are summarised and reported.
C7_MissingAttribFatalForStudyOnly ==
    (/\ StatFinished
     /\ st_output
     /\ AnyStudy(LacksReferenceAttrib)
     /\ ~AnyStudy(IsEmptyStudy))
        => /\ st_pc = "done"
           /\ \A key \in AllVisitedKeys : StoredCount(key) = HealthyCount(key)
           /\ OthersReported

\* C8: in a completed run over complete study directories, the table written
\* for model M has exactly one row per study under M's tree and no other row,
\* each row computed from M's own predictions, and the combined table has
\* exactly one row per study.
C8_OneSummaryPerStudyAndModel ==
    (/\ st_pc = "done"
     /\ st_output
     /\ ~AnyStudy(IsEmptyStudy)
     /\ ~AnyStudy(LacksReferenceAttrib))
        => /\ \A mi \in DOMAIN st_tree :
                LET rows == TableRows("model", st_tree[mi].name)
                IN  /\ HasTable("model", st_tree[mi].name)
                    /\ RowKeys(rows) = VisitedKeys(mi)
                    /\ Len(rows) = Cardinality(VisitedKeys(mi))
                    /\ \A key \in VisitedKeys(mi) :
                          RatEq(RowOf(rows, key).TKV_Pred,
                                Volume(RowOf(rows, key), PositiveVoxels(DirOf(mi, key).slices)))
           /\ RowKeys(TableRows("combined", <<>>)) = AllVisitedKeys
           /\ Len(TableRows("combined", <<>>)) = Cardinality(AllVisitedKeys)

\* the run has passed study k of model mi
StudyProcessed(mi, k) ==
    /\ st_pc \in {"models", "combine", "done"}
    /\ mi < st_mi \/ (mi = st_mi /\ st_pc = "models" /\ k < st_si)

\* inference_to_disk wrote all four artifacts of every slice
FullyWritten(dir) == \A k \in DOMAIN dir.slices : dir.slices[k].attrib.has

StemsOf(files) == [k \in DOMAIN files |-> files[k].stem]

\* C13: in every study directory the run has stacked, the k-th image, the k-th
\* prediction, the k-th ground truth and the k-th attributes record come from
\* one slice stem, whatever the stems inference_to_disk wrote.
C13_StacksAligned ==
    \A mi \in DOMAIN st_tree :
      \A k \in DOMAIN Visited(mi) :
        (StudyProcessed(mi, k) /\ FullyWritten(Visited(mi)[k])) =>
            /\ StemsOf(GlobSorted(Visited(mi)[k], SuffixPred)) = StemsOf(GlobSorted(Visited(mi)[k], SuffixImg))
            /\ StemsOf(GlobSorted(Visited(mi)[k], SuffixGround)) = StemsOf(GlobSorted(Visited(mi)[k], SuffixImg))
            /\ StemsOf(AttribFiles(Visited(mi)[k])) = StemsOf(GlobSorted(Visited(mi)[k], SuffixImg))

\* all_pred_vol[key] at position i holds the resized stack (line 416 has run)
StackedAt(i) ==
    \/ st_pc \in {"combine", "done", "raised"} /\ i < st_ck
    \/ st_pc = "raised" /\ st_err = "ShapeMismatchError" /\ i = st_ck

\* C15: for every study the combination loop has reached, one-slice studies
\* included, the ensemble-averaged prediction volume has shape n x 1 x H x W,
\* the shape of the ground-truth volume it is compared with.
C15_AveragedVolumeShape ==
    \A i \in DOMAIN st_all_pred_vol :
        StackedAt(i) =>
            LET ground == ODGet(st_all_ground_vol, st_all_pred_vol[i].k)[1]
            IN  /\ CombinedShape(st_all_pred_vol[i].v) = ground.shape
                /\ ground.shape = <<Len(ground.data), 1, SliceShape[2], SliceShape[3]>>

\* C16: a pass of the combination loop leaves the first model's summary of the
\* study as it was (its own TKV_Pred, patient_dice and Pred_stdev), and the
\* combined summary it stores is another record.
C16_PerModelSummaryKept ==
    [][ (st_pc = "combine" /\ st_ck' = st_ck + 1) =>
            LET id == ODGet(st_all_summaries, CurKey)[1]
            IN  /\ st_heap'[id] = st_heap[id]
                /\ ODGet(st_Combined', CurKey) # id
      ]_vars

----------------------------------------------------------------------------
\* SegmentationDataset

MaxSegFiles == 3

MaxIDs == 2

\* patient_IDS=None
NoPatientIDS == [none |-> TRUE, ids |-> <<>>]

\* sequences over S of length at most n
SeqsUpTo(S, n) == UNION { [1..k -> S] : k \in 0..n }

\* a path list cut into the file lists of patients 1, 2
NamedSplit(s, k) ==
    LET parts == SplitAt(s, k) IN [i \in DOMAIN parts |-> [patient |-> i, files |-> parts[i]]]

PatientKeys(pt2dcm) == { pt2dcm[i].patient : i \in DOMAIN pt2dcm }

\* patient2dcm[p]
FilesOf(pt2dcm, p) == pt2dcm[CHOOSE i \in DOMAIN pt2dcm : pt2dcm[i].patient = p].files

PatientOfPath(pt2dcm, path) ==
    pt2dcm[CHOOSE i \in DOMAIN pt2dcm : path \in Range(pt2dcm[i].files)].patient

\* get_y_Path(dcm): the label file that belongs to a dcm file
LabelPath(dcm) == [label_of |-> dcm]

\* dcm2attribs as make_dcmdicts leaves it: kidney pixels and voxel volume per file
RawAttribs(pt2dcm) ==
    [path \in Range(Flatten([i \in DOMAIN pt2dcm |-> pt2dcm[i].files])) |->
        [patient |-> PatientOfPath(pt2dcm, path), KIDNEY_PIXELS |-> path, VOXEL_VOLUME |-> 2]]

\* TKV_update(dcm2attribs): every file gets its study's total kidney volume
TKVUpdate(attribs) ==
    [path \in DOMAIN attribs |->
        [patient |-> attribs[path].patient,
         KIDNEY_PIXELS |-> attribs[path].KIDNEY_PIXELS,
         VOXEL_VOLUME |-> attribs[path].VOXEL_VOLUME,
         STUDY_TKV |-> LET same == { q \in DOMAIN attribs : attribs[q].patient = attribs[path].patient }
                           RECURSIVE Total(_)
                           Total(S) == IF S = {} THEN 0
                                       ELSE LET q == CHOOSE q \in S : TRUE
                                            IN  attribs[q].KIDNEY_PIXELS * attribs[q].VOXEL_VOLUME
                                                + Total(S \ {q})
                       IN  Total(same)]]

\* self.patients taken from the dict's keys whether or not patient_IDS is given
SegPatients_KeysOnly(pt2dcm, patient_IDS) == [i \in DOMAIN pt2dcm |-> pt2dcm[i].patient]

\* self.patients: the dict's keys, or patient_IDS when it is given
SegPatients(pt2dcm, patient_IDS) ==
    IF patient_IDS.none THEN [i \in DOMAIN pt2dcm |-> pt2dcm[i].patient] ELSE patient_IDS.ids

\* patient2dcm[p] raises KeyError for a patient that is no key
SegInitKeyErrors(pt2dcm, patient_IDS) ==
    \E i \in DOMAIN SegPatients(pt2dcm, patient_IDS) :
        SegPatients(pt2dcm, patient_IDS)[i] \notin PatientKeys(pt2dcm)

\* for p in self.patients: self.dcm_paths.extend(patient2dcm[p])
SegDcmPaths(pt2dcm, patient_IDS) ==
    LET ps == SegPatients(pt2dcm, patient_IDS)
    IN  Flatten([i \in DOMAIN ps |-> FilesOf(pt2dcm, ps[i])])

\* __getitem__(index), index counted from 1: the sample, or the exception that
\* leaves it (list index out of range, a dcm or a label that cannot be decoded)
GetItemOutcome(dcm_paths, label_paths, bad, index) ==
    IF index > Len(dcm_paths) THEN "IndexError"
    ELSE IF bad.kind = "dcm" /\ dcm_paths[index] = bad.path THEN "DecodeError"
    ELSE IF bad.kind = "label" /\ label_paths[index] = LabelPath(bad.path) THEN "DecodeError"
    ELSE "sample"

\* torch.zeros(len(self)) for every attribute name
ZeroTensors(n) == [i \in 1..n |-> [STUDY_TKV |-> 0, KIDNEY_PIXELS |-> 0, VOXEL_VOLUME |-> 0]]

\* v[idx] = attribs[k] for every attribute name
FillTensors(tensor_dict, idx, attribs) ==
    [tensor_dict EXCEPT ![idx] = [STUDY_TKV |-> attribs.STUDY_TKV,
                                  KIDNEY_PIXELS |-> attribs.KIDNEY_PIXELS,
                                  VOXEL_VOLUME |-> attribs.VOXEL_VOLUME]]

InitSeg ==
    /\ IdleAcc
    /\ IdleInf
    /\ IdleStats
    /\ IdleJson
    /\ \E n \in 1..MaxSegFiles :
         \E order \in Perms(1..n) :
           \E cut \in 1..n :
             /\ seg_pt2dcm = NamedSplit(order, cut)
             /\ seg_bad \in {[kind |-> "none", path |-> 0]}
                             \cup [kind : {"dcm", "label"}, path : 1..n]
    /\ seg_patient_IDS \in {NoPatientIDS} \cup [none : {FALSE}, ids : SeqsUpTo({1, 2}, MaxIDs)]
    /\ seg_pc = "new"
    /\ seg_dcm_paths = <<>>
    /\ seg_label_paths = <<>>
    /\ seg_dcm2attribs = <<>>
    /\ seg_tensor_dict = <<>>
    /\ seg_idx = 0
    /\ seg_last = [index |-> 0, outcome |-> "none"]
    /\ seg_err = ""

\* lines 63-71 with a patient_IDS entry that is no key of patient2dcm
SegInitKeyError ==
    /\ seg_pc = "new"
    /\ SegInitKeyErrors(seg_pt2dcm, seg_patient_IDS)
    /\ seg_pc' = "raised"
    /\ seg_err' = "KeyError"
    /\ UNCHANGED <<seg_pt2dcm, seg_patient_IDS, seg_bad, seg_dcm_paths, seg_label_paths,
                   seg_dcm2attribs, seg_tensor_dict, seg_idx, seg_last>>
    /\ UNCHANGED notSeg

\* lines 63-75 and 147-151: the path lists, TKV_update, the zeroed tensors
SegInitPaths ==
    /\ seg_pc = "new"
    /\ ~SegInitKeyErrors(seg_pt2dcm, seg_patient_IDS)
    /\ seg_dcm_paths' = SegDcmPaths(seg_pt2dcm, seg_patient_IDS)
    /\ seg_label_paths' = [i \in DOMAIN seg_dcm_paths' |-> LabelPath(seg_dcm_paths'[i])]
    /\ seg_dcm2attribs' = TKVUpdate(RawAttribs(seg_pt2dcm))
    /\ seg_tensor_dict' = ZeroTensors(Len(seg_dcm_paths'))
    /\ seg_idx' = 1
    /\ seg_pc' = "prepare"
    /\ UNCHANGED <<seg_pt2dcm, seg_patient_IDS, seg_bad, seg_last, seg_err>>
    /\ UNCHANGED notSeg

\* lines 153-157: enumerate(self) builds sample idx, then its attributes are stored
SegPrepareStep ==
    /\ seg_pc = "prepare"
    /\ GetItemOutcome(seg_dcm_paths, seg_label_paths, seg_bad, seg_idx) = "sample"
    /\ seg_tensor_dict' = FillTensors(seg_tensor_dict, seg_idx, seg_dcm2attribs[seg_dcm_paths[seg_idx]])
    /\ seg_idx' = seg_idx + 1
    /\ UNCHANGED <<seg_pt2dcm, seg_patient_IDS, seg_bad, seg_pc, seg_dcm_paths, seg_label_paths,
                   seg_dcm2attribs, seg_last, seg_err>>
    /\ UNCHANGED notSeg

\* line 153: the sample enumerate(self) asks for cannot be decoded; the
\* exception leaves prepare_tensor_dict and __init__
SegPrepareRaises ==
    /\ seg_pc = "prepare"
    /\ GetItemOutcome(seg_dcm_paths, seg_label_paths, seg_bad, seg_idx) = "DecodeError"
    /\ seg_pc' = "raised"
    /\ seg_err' = "DecodeError"
    /\ UNCHANGED <<seg_pt2dcm, seg_patient_IDS, seg_bad, seg_dcm_paths, seg_label_paths,
                   seg_dcm2attribs, seg_tensor_dict, seg_idx, seg_last>>
    /\ UNCHANGED notSeg

\* line 153: IndexError from __getitem__ ends the iteration; lines 159, 77
SegPrepareDone ==
    /\ seg_pc = "prepare"
    /\ GetItemOutcome(seg_dcm_paths, seg_label_paths, seg_bad, seg_idx) = "IndexError"
    /\ seg_pc' = "ready"
    /\ UNCHANGED <<seg_pt2dcm, seg_patient_IDS, seg_bad, seg_dcm_paths, seg_label_paths,
                   seg_dcm2attribs, seg_tensor_dict, seg_idx, seg_last, seg_err>>
    /\ UNCHANGED notSeg

\* lines 79-122: dataset[index] on the built dataset
SegGetItem ==
    /\ seg_pc = "ready"
    /\ \E index \in 1..(Len(seg_dcm_paths) + 1) :
          seg_last' = [index |-> index,
                       outcome |-> GetItemOutcome(seg_dcm_paths, seg_label_paths, seg_bad, index)]
    /\ UNCHANGED <<seg_pt2dcm, seg_patient_IDS, seg_bad, seg_pc, seg_dcm_paths, seg_label_paths,
                   seg_dcm2attribs, seg_tensor_dict, seg_idx, seg_err>>
    /\ UNCHANGED notSeg

NextSeg ==
    \/ SegInitKeyError
    \/ SegInitPaths
    \/ SegPrepareStep
    \/ SegPrepareRaises
    \/ SegPrepareDone
    \/ SegGetItem

SpecSeg == InitSeg /\ [][NextSeg]_vars

----------------------------------------------------------------------------
\* Properties of SegmentationDataset

SegFinished == seg_pc \in {"ready", "raised"}

\* the dataset lists the file that cannot be decoded
SegListsBadFile ==
    /\ seg_bad.kind # "none"
    /\ ~SegInitKeyErrors(seg_pt2dcm, seg_patient_IDS)
    /\ seg_bad.path \in Range(SegDcmPaths(seg_pt2dcm, seg_patient_IDS))

\* C9: with an undecodable file at some index of the dataset, constructing the
\* dataset object succeeds, and an access fails only at an index that holds the
\* undecodable file.
C9_DecodeFailureConfined ==
    (SegFinished /\ SegListsBadFile) =>
        /\ seg_pc = "ready"
        /\ (seg_last.outcome = "DecodeError" =>
              seg_bad.path = seg_dcm_paths[seg_last.index])

\* __len__
SegLen(dcm_paths) == Len(dcm_paths)

\* lines 69-72 have run
SegPathsBuilt == seg_pc \in {"prepare", "ready"} \/ seg_err = "DecodeError"

\* the order the claim names: patient2dcm insertion order, or patient_IDS
SegClaimedOrder ==
    IF seg_patient_IDS.none THEN [i \in DOMAIN seg_pt2dcm |-> seg_pt2dcm[i].patient]
    ELSE seg_patient_IDS.ids

\* number of files of the first k patients of an order
RECURSIVE SegFilesBefore(_, _)
SegFilesBefore(ps, k) ==
    IF k = 0 THEN 0 ELSE SegFilesBefore(ps, k - 1) + Len(FilesOf(seg_pt2dcm, ps[k]))

\* every file patient2dcm lists
SegIndexedFiles == UNION { Range(seg_pt2dcm[i].files) : i \in DOMAIN seg_pt2dcm }

\* patient_IDS lists each patient of patient2dcm exactly once (or is None)
SegEachPatientOnce ==
    /\ Range(SegClaimedOrder) = PatientKeys(seg_pt2dcm)
    /\ Len(SegClaimedOrder) = Cardinality(PatientKeys(seg_pt2dcm))

\* C11: dcm_paths is the concatenation of the per-patient file lists in
\* patient2dcm insertion order (patient_IDS None) or patient_IDS order, every
\* patient's files in their own order; label_paths[i] is the label of
\* dcm_paths[i]; when every patient is listed exactly once every indexed file
\* appears exactly once and len(dataset) is the number of indexed files.
C11_PathsConcatenated ==
    SegPathsBuilt =>
        /\ SegLen(seg_dcm_paths) = SegFilesBefore(SegClaimedOrder, Len(SegClaimedOrder))
        /\ \A i \in DOMAIN SegClaimedOrder :
             \A k \in DOMAIN FilesOf(seg_pt2dcm, SegClaimedOrder[i]) :
                seg_dcm_paths[SegFilesBefore(SegClaimedOrder, i - 1) + k]
                    = FilesOf(seg_pt2dcm, SegClaimedOrder[i])[k]
        /\ DOMAIN seg_label_paths = DOMAIN seg_dcm_paths
        /\ \A i \in DOMAIN seg_dcm_paths : seg_label_paths[i] = LabelPath(seg_dcm_paths[i])
        /\ SegEachPatientOnce =>
             /\ \A f \in SegIndexedFiles :
                   Cardinality({ i \in DOMAIN seg_dcm_paths : seg_dcm_paths[i] = f }) = 1
             /\ SegLen(seg_dcm_paths) = Cardinality(SegIndexedFiles)

\* a built dataset of two patients whose patient_IDS reverses the insertion order
C11_Witness ==
    /\ seg_pc = "ready"
    /\ ~seg_patient_IDS.none
    /\ Len(seg_pt2dcm) = 2
    /\ seg_patient_IDS.ids = << seg_pt2dcm[2].patient, seg_pt2dcm[1].patient >>
    /\ Len(seg_dcm_paths) = MaxSegFiles


----------------------------------------------------------------------------
\* JsonDatasetGetter

MaxPairs == 2

SplitNames == {"TRAIN", "VAL"}

\* the keys a caller may ask for
SplitterKeys == {"TRAIN", "VAL", "TEST"}

\* patient2dcm as make_dcmdicts(sorted(get_labeled())) returns it
LabeledPatient2dcm == << [patient |-> 1, files |-> <<1, 2>>], [patient |-> 2, files |-> <<3>>] >>

\* json.load of an object: a dict of its members, a repeated name keeping the
\* value written last
RECURSIVE JsonLoadFrom(_, _)
JsonLoadFrom(members, d) ==
    IF members = <<>> THEN d
    ELSE JsonLoadFrom(Tail(members), DictSet(d, Head(members).key, Head(members).ids))

JsonLoad(members) == JsonLoadFrom(members, EmptyDict)

\* a lookup that falls back to an empty list, as dict.get(key, []) would
LookupRaises_GetDefault(dataset_split, key) == FALSE

\* dataset_split[splitter_key] raises KeyError when the key is absent
LookupRaises(dataset_split, key) == key \notin DOMAIN dataset_split

Lookup(dataset_split, key) == IF key \in DOMAIN dataset_split THEN dataset_split[key] ELSE <<>>

\* PatientFiltering(patient_IDS)(dcm2attribs, patient2dcm): the entries of the
\* patients in the subset, in their order in the index
PatientFilter(patient2dcm, ids) == SelectSeq(patient2dcm, LAMBDA e : e.patient \in Range(ids))

InitJson ==
    /\ IdleAcc
    /\ IdleInf
    /\ IdleStats
    /\ IdleSeg
    /\ js_file \in SeqsUpTo([key : SplitNames, ids : SeqsUpTo({1, 2}, MaxIDs)], MaxPairs)
    /\ js_splitter_key \in SplitterKeys
    /\ js_pc = "new"
    /\ js_dataset_split = <<>>
    /\ js_patient_IDS = <<>>
    /\ js_patient2dcm = <<>>
    /\ js_dataset = [made |-> FALSE, patient_IDS |-> <<>>, patient2dcm |-> <<>>]
    /\ js_err = ""

\* lines 249-259: index the labelled files, read the split file
JsLoad ==
    /\ js_pc = "new"
    /\ js_dataset_split' = JsonLoad(js_file)
    /\ js_pc' = "loaded"
    /\ UNCHANGED <<js_file, js_splitter_key, js_patient_IDS, js_patient2dcm, js_dataset, js_err>>
    /\ UNCHANGED notJson

\* line 260 with a key the split file does not hold
JsLookupRaises ==
    /\ js_pc = "loaded"
    /\ LookupRaises(js_dataset_split, js_splitter_key)
    /\ js_pc' = "raised"
    /\ js_err' = "KeyError"
    /\ UNCHANGED <<js_file, js_splitter_key, js_dataset_split, js_patient_IDS, js_patient2dcm, js_dataset>>
    /\ UNCHANGED notJson

\* lines 260-268
JsLookup ==
    /\ js_pc = "loaded"
    /\ ~LookupRaises(js_dataset_split, js_splitter_key)
    /\ js_patient_IDS' = Lookup(js_dataset_split, js_splitter_key)
    /\ js_patient2dcm' = PatientFilter(LabeledPatient2dcm, js_patient_IDS')
    /\ js_pc' = "constructed"
    /\ UNCHANGED <<js_file, js_splitter_key, js_dataset_split, js_dataset, js_err>>
    /\ UNCHANGED notJson

\* lines 270-281: __call__ hands the stored lists to SegmentationDataset
JsCall ==
    /\ js_pc = "constructed"
    /\ js_dataset' = [made |-> TRUE, patient_IDS |-> js_patient_IDS, patient2dcm |-> js_patient2dcm]
    /\ js_pc' = "called"
    /\ UNCHANGED <<js_file, js_splitter_key, js_dataset_split, js_patient_IDS, js_patient2dcm, js_err>>
    /\ UNCHANGED notJson

NextJson == JsLoad \/ JsLookupRaises \/ JsLookup \/ JsCall

SpecJson == InitJson /\ [][NextJson]_vars

----------------------------------------------------------------------------
\* Properties of JsonDatasetGetter

JsFinished == js_pc \in {"raised", "constructed", "called"}

\* the split file holds a member of that name
JsFileHasKey(key) == \E i \in DOMAIN js_file : js_file[i].key = key

\* the array of the last member of that name in the file
JsStoredArray(key) ==
    js_file[CHOOSE i \in DOMAIN js_file :
               /\ js_file[i].key = key
               /\ \A j \in DOMAIN js_file : js_file[j].key = key => j <= i].ids

\* C10 as stated: a splitter_key the split file does not hold makes
\* construction fail with a ConfigurationError and no dataset is produced; a key
\* it holds gives patient_IDS equal to the stored array.
C10_AsStated ==
    JsFinished =>
        IF JsFileHasKey(js_splitter_key)
        THEN js_pc # "raised" /\ js_patient_IDS = JsStoredArray(js_splitter_key)
        ELSE js_pc = "raised" /\ js_err = "ConfigurationError" /\ ~js_dataset.made

\* C10, amended: a splitter_key the split file does not hold makes construction
\* fail with a KeyError and no dataset is produced; a key it holds gives
\* patient_IDS equal to the stored array, same IDs in the same order.
C10_MissingKeyFails ==
    JsFinished =>
        IF JsFileHasKey(js_splitter_key)
        THEN js_pc # "raised" /\ js_patient_IDS = JsStoredArray(js_splitter_key)
        ELSE js_pc = "raised" /\ js_err = "KeyError" /\ ~js_dataset.made

\* construction has failed on a key absent from a split file that holds other splits
C10_Witness ==
    /\ js_pc = "raised"
    /\ js_file # <<>>
    /\ ~JsFileHasKey(js_splitter_key)

----------------------------------------------------------------------------
\* Workers reading a built dataset: __getitem__ and get_verbose of
\* SegmentationDataset and InferenceDataset

\* the arguments the datasets of the access runs are built from
AccSegInputs ==
    { [pt2dcm |-> << [patient |-> 1, files |-> <<1, 2>>] >>, patient_IDS |-> NoPatientIDS],
      [pt2dcm |-> << [patient |-> 1, files |-> <<2>>], [patient |-> 2, files |-> <<1>>] >>,
       patient_IDS |-> [none |-> FALSE, ids |-> <<2, 1>>]],
      [pt2dcm |-> << [patient |-> 1, files |-> <<1>>], [patient |-> 2, files |-> <<2>>] >>,
       patient_IDS |-> [none |-> FALSE, ids |-> <<2>>]] }

AccInfInputs ==
    { [pt2dcm |-> << <<1, 2>> >>, z |-> <<2, 1>>],
      [pt2dcm |-> << <<2>>, <<1>> >>, z |-> <<1, 1>>] }

\* which dataset object exists
AccKind == IF seg_pc = "ready" THEN "seg" ELSE IF inf_pc = "done" THEN "inf" ELSE "none"

\* self.dcm_paths, self.dcm2attribs of the dataset that exists
AccDcmPaths == IF AccKind = "seg" THEN seg_dcm_paths ELSE inf_dcm_paths

AccDcm2attribs == IF AccKind = "seg" THEN seg_dcm2attribs ELSE inf_dcm2attribs

\* im_path = self.dcm_paths[index], index counted from 1, read one place too early
AccImagePath_Previous(dcm_paths, index) == dcm_paths[IF index > 1 THEN index - 1 ELSE index]

\* im_path = self.dcm_paths[index], index counted from 1
AccImagePath(dcm_paths, index) == dcm_paths[index]

\* path_2dcm_int16, normalization, augmentation and preprocessing: the image
\* tensor of one file, normalised with the file's attributes
AccImage(im_path, attribs) == [image_of |-> im_path, normalised_with |-> attribs]

\* path_2label and label2mask: the mask of one label file
AccMask(label_path) == [mask_of |-> label_path]

\* what __getitem__ returns for a SegmentationDataset / an InferenceDataset
AccSample(kind, image, mask) ==
    IF kind = "seg" THEN [image |-> image, mask |-> mask] ELSE [image |-> image]

\* get_verbose: sample, dcm_path, attribs
AccVerbose(sample, dcm_paths, dcm2attribs, index) ==
    [sample |-> sample, dcm_path |-> dcm_paths[index], attribs |-> dcm2attribs[dcm_paths[index]]]

InitAccess ==
    /\ IdleAcc
    /\ IdleStats
    /\ IdleJson
    /\ \/ /\ IdleInf
          /\ \E in \in AccSegInputs :
               /\ seg_pt2dcm = in.pt2dcm
               /\ seg_patient_IDS = in.patient_IDS
          /\ seg_bad = [kind |-> "none", path |-> 0]
          /\ seg_pc = "new"
          /\ seg_dcm_paths = <<>>
          /\ seg_label_paths = <<>>
          /\ seg_dcm2attribs = <<>>
          /\ seg_tensor_dict = <<>>
          /\ seg_idx = 0
          /\ seg_last = [index |-> 0, outcome |-> "none"]
          /\ seg_err = ""
       \/ /\ IdleSeg
          /\ \E in \in AccInfInputs :
               /\ inf_pt2dcm = in.pt2dcm
               /\ inf_meta = [p \in DOMAIN in.z |-> [key |-> CHOOSE k \in GroupKeys : k[7] = 1,
                                                     z |-> in.z[p]]]
          /\ inf_dcm2attribs = InfRawAttribs(inf_pt2dcm)
          /\ inf_pc = "new"
          /\ inf_df = <<>>
          /\ inf_todo = <<>>
          /\ inf_dcm_paths = <<>>
          /\ inf_err = ""

\* a worker calls dataset[index] or dataset.get_verbose(index)
AccCall ==
    /\ AccKind # "none"
    /\ \E w \in Workers, index \in 1..(Len(AccDcmPaths) + 1), verbose \in BOOLEAN :
         /\ acc_w[w].pc = "idle"
         /\ acc_w' = [acc_w EXCEPT ![w] = [NoAccess EXCEPT !.pc = "path", !.index = index,
                                                           !.verbose = verbose]]
    /\ UNCHANGED notAcc

\* lines 85, 390: im_path = self.dcm_paths[index]
AccReadPath ==
    /\ \E w \in Workers :
         /\ acc_w[w].pc = "path"
         /\ acc_w' = [acc_w EXCEPT ![w] =
              IF acc_w[w].index > Len(AccDcmPaths)
              THEN [@ EXCEPT !.pc = "done", !.result = [outcome |-> "IndexError"]]
              ELSE [@ EXCEPT !.pc = "image", !.im_path = AccImagePath(AccDcmPaths, acc_w[w].index)]]
    /\ UNCHANGED notAcc

\* lines 86-91, 391-396: decode and normalise the image
AccReadImage ==
    /\ \E w \in Workers :
         /\ acc_w[w].pc = "image"
         /\ acc_w' = [acc_w EXCEPT ![w] =
              [@ EXCEPT !.pc = IF AccKind = "seg" THEN "label" ELSE "return",
                        !.image = AccImage(acc_w[w].im_path, AccDcm2attribs[acc_w[w].im_path])]]
    /\ UNCHANGED notAcc

\* lines 93-96: label = path_2label(self.label_paths[index])
AccReadLabel ==
    /\ \E w \in Workers :
         /\ acc_w[w].pc = "label"
         /\ acc_w' = [acc_w EXCEPT ![w] =
              [@ EXCEPT !.pc = "return", !.mask = AccMask(seg_label_paths[acc_w[w].index])]]
    /\ UNCHANGED notAcc

\* lines 98-122, 398-418 and, for get_verbose, 137-141, 433-437
AccReturn ==
    /\ \E w \in Workers :
         /\ acc_w[w].pc = "return"
         /\ acc_w' = [acc_w EXCEPT ![w] =
              [@ EXCEPT !.pc = "done",
                        !.result =
                           LET sample == AccSample(AccKind, acc_w[w].image, acc_w[w].mask)
                           IN  [outcome |-> "sample",
                                value |-> IF acc_w[w].verbose
                                          THEN AccVerbose(sample, AccDcmPaths, AccDcm2attribs,
                                                          acc_w[w].index)
                                          ELSE sample]]]
    /\ UNCHANGED notAcc

\* the caller has taken the result
AccRelease ==
    /\ \E w \in Workers :
         /\ acc_w[w].pc = "done"
         /\ acc_w' = [acc_w EXCEPT ![w] = NoAccess]
    /\ UNCHANGED notAcc

NextAccess ==
    \/ SegInitPaths
    \/ SegPrepareStep
    \/ SegPrepareDone
    \/ InfBuildFrame
    \/ InfRankGroup
    \/ InfSortGroups
    \/ InfExpose
    \/ AccCall
    \/ AccReadPath
    \/ AccReadImage
    \/ AccReadLabel
    \/ AccReturn
    \/ AccRelease

SpecAccess == InitAccess /\ [][NextAccess]_vars

----------------------------------------------------------------------------
\* Properties of concurrent access

\* the path list the constructor built from its arguments
AccBuiltPaths ==
    IF AccKind = "seg" THEN Flatten([i \in DOMAIN SegClaimedOrder |->
                                        FilesOf(seg_pt2dcm, SegClaimedOrder[i])])
    ELSE Flatten(inf_pt2dcm)

\* what one access returns when nothing else runs
AccAlone(index, verbose) ==
    IF index > Len(AccBuiltPaths) THEN [outcome |-> "IndexError"]
    ELSE LET path == AccBuiltPaths[index]
             attribs == IF AccKind = "seg" THEN TKVUpdate(RawAttribs(seg_pt2dcm))[path]
                        ELSE InfRawAttribs(inf_pt2dcm)[path]
             image == [image_of |-> path, normalised_with |-> attribs]
             sample == IF AccKind = "seg"
                       THEN [image |-> image, mask |-> [mask_of |-> LabelPath(path)]]
                       ELSE [image |-> image]
         IN  [outcome |-> "sample",
              value |-> IF verbose
                        THEN [sample |-> sample, dcm_path |-> path, attribs |-> attribs]
                        ELSE sample]

AccSharedState ==
    <<seg_dcm_paths, seg_label_paths, seg_dcm2attribs, seg_tensor_dict,
      inf_dcm_paths, inf_dcm2attribs>>

\* C12: no step of an access by any worker changes dcm_paths, label_paths,
\* dcm2attribs or tensor_dict of the dataset, and whatever the interleaving every
\* finished access holds the result the same access returns when run alone.
C12_AccessWritesNothing ==
    /\ [][acc_w' # acc_w => UNCHANGED AccSharedState]_vars
    /\ [](\A w \in Workers :
            acc_w[w].pc = "done" => acc_w[w].result = AccAlone(acc_w[w].index, acc_w[w].verbose))

\* one worker has finished a get_verbose while another is in the middle of an
\* access to a different index
C12_Witness ==
    \E w, v \in Workers :
        /\ w # v
        /\ acc_w[w].pc = "done"
        /\ acc_w[w].verbose
        /\ acc_w[w].result.outcome = "sample"
        /\ acc_w[v].pc \in {"image", "label", "return"}
        /\ acc_w[v].index # acc_w[w].index

====
